---- MODULE Spec2Model ----
(***************************************************************************)
(* A model of lib/buildFile.js of style-dictionary: the emission of one    *)
(* output file from a token dictionary, a platform and a file description. *)
(*                                                                         *)
(* Strings that the code takes apart (paths) are sequences of one-letter   *)
(* strings; the file system is a set of directories and a map from file    *)
(* paths to contents; GroupMessages is a map from group keys to message    *)
(* sequences; the console is the ordered list of effects of a call.        *)
(***************************************************************************)
EXTENDS Integers, Sequences, FiniteSets, TLC

VARIABLES
  dictionary,   \* the resolved dictionary of the run (read only)
  platformConfig, \* the platform the files are built for (read only)
  dirs,         \* directories that exist, as paths
  files,        \* path -> content of the files that exist
  groups,       \* GroupMessages.groupMessages: group key -> messages
  last          \* the last call of buildFile: arguments, effects, outcome

vars == <<dictionary, platformConfig, dirs, files, groups, last>>

----------------------------------------------------------------------------
(* Bounds *)

\* longest dictionary.allProperties of an emission run
MaxTokens == 2
\* longest dictionary.allProperties of a collision run
MaxCollisionTokens == 4
\* most reference messages one formatter call records
MaxRefs == 1
\* most messages left pending in FilteredOutputReferences between calls
MaxPending == 1

----------------------------------------------------------------------------
(* Values *)

Undefined == [type |-> "undefined", str |-> <<>>]
Str(chars) == [type |-> "string", str |-> chars]

\* typeof v === 'string'; the variant also demands a letter
IsString_nonEmpty(v) == v.type = "string" /\ v.str # <<>>
IsString(v) == v.type = "string"

\* typeof v === 'function'; the variant lets every value pass
IsFunction_any(v) == TRUE
IsFunction(v) == v.type = "function"

\* JavaScript truthiness of a string or undefined
Truthy(v) == v.type = "string" /\ v.str # <<>>

----------------------------------------------------------------------------
(* path and fs-extra, as buildFile uses them *)

RECURSIVE DirnameEnd(_, _, _)
\* the loop of path.dirname: scans from the last letter down to the second
\* for the first slash that follows a letter which is not a slash; the
\* result is the number of letters kept, or -1
DirnameEnd(p, j, matchedSlash) ==
  IF j < 2 THEN -1
  ELSE IF p[j] = "/"
       THEN IF ~matchedSlash THEN j - 1 ELSE DirnameEnd(p, j - 1, TRUE)
       ELSE DirnameEnd(p, j - 1, FALSE)

\* path.dirname(p)
dirname(p) ==
  IF Len(p) = 0 THEN <<".">>
  ELSE LET hasRoot == p[1] = "/"
           end == DirnameEnd(p, Len(p), TRUE)
       IN IF end = -1 THEN (IF hasRoot THEN <<"/">> ELSE <<".">>)
          ELSE IF hasRoot /\ end = 1 THEN <<"/", "/">>
          ELSE SubSeq(p, 1, end)

\* fs.existsSync(p)
existsSync(st, p) == p \in st.dirs \/ p \in DOMAIN st.files

RECURSIVE Chain(_)
\* p and the directories above it, up to the working directory or the root
Chain(p) ==
  IF p = <<".">> \/ p = <<"/">> \/ p = <<"/", "/">> \/ dirname(p) = p THEN {p}
  ELSE {p} \cup Chain(dirname(p))

\* fs.mkdirsSync(p): p and every missing directory above it
mkdirsSync(st, p) == [st EXCEPT !.dirs = @ \cup Chain(p)]

\* the error of fs.writeFileSync(p, ...), "" when the write succeeds
WriteError(st, p) ==
  IF p = <<>> THEN "ENOENT"
  ELSE IF p[Len(p)] = "/"
       THEN (IF SubSeq(p, 1, Len(p) - 1) \in st.dirs THEN "EISDIR" ELSE "ENOENT")
  ELSE IF p \in st.dirs THEN "EISDIR"
  ELSE IF dirname(p) \in DOMAIN st.files THEN "ENOTDIR"
  ELSE IF dirname(p) \notin st.dirs THEN "ENOENT"
  ELSE ""

\* fs.writeFileSync(p, body) when it succeeds: creates or replaces the file
writeFileSync(st, p, body) ==
  [st EXCEPT !.files = [q \in DOMAIN @ \cup {p} |-> IF q = p THEN body ELSE @[q]]]

----------------------------------------------------------------------------
(* GroupMessages (lib/utils/groupMessages.js) *)

GROUP_PropertyNameCollisionWarnings == "PropertyNameCollisionWarnings"
GROUP_FilteredOutputReferences == "FilteredOutputReferences"

\* a group name, and the destination that is appended to it after a colon
Key(group, dest) == [group |-> group, dest |-> dest]
FilteredOutputReferences == Key(GROUP_FilteredOutputReferences, <<>>)

GroupMessages_clear(g, key) == [k \in DOMAIN g \ {key} |-> g[k]]

GroupMessages_add(g, key, message) ==
  [k \in DOMAIN g \cup {key} |->
     IF k = key
     THEN (IF key \in DOMAIN g THEN Append(g[key], message) ELSE <<message>>)
     ELSE g[k]]

GroupMessages_fetchMessages(g, key) == IF key \in DOMAIN g THEN g[key] ELSE <<>>

GroupMessages_count(g, key) == Len(GroupMessages_fetchMessages(g, key))

\* flush = fetchMessages, then clear; this is the group map after it
GroupMessages_flush(g, key) == GroupMessages_clear(g, key)

----------------------------------------------------------------------------
(* Tokens, dictionaries, filters, formatters *)

\* token names of an emission run
Names == {"a", "b"}
\* token names of a collision run: "1" is an integer-like property key of a
\* JavaScript object, "constructor" a property every object inherits
CollisionNames == {"a", "1", "constructor"}

\* the i-th token of a dictionary: its path is unique, its name is not
Token(i, n) == [path |-> <<"color", i>>, name |-> n, value |-> i]

\* the nested tree of a token sequence, as the set of the paths of its leaves
Tree(tokens) == {tokens[i].path : i \in DOMAIN tokens}

Dictionary(names) ==
  LET all == [i \in DOMAIN names |-> Token(i, names[i])]
  IN [properties |-> Tree(all), allProperties |-> all]

Dictionaries(N, max) ==
  {Dictionary(names) : names \in UNION {[1..n -> N] : n \in 0..max}}

\* file.filter: absent, or a predicate over a token
Filters == {"undefined", "nothing", "named a"}
Matches(filter, token) ==
  CASE filter = "nothing" -> FALSE
    [] filter = "named a" -> token.name = "a"
    [] OTHER -> TRUE

\* filterProperties(dictionary, filter) (lib/filterProperties.js)
filterProperties(dict, filter) ==
  IF filter = "undefined" THEN dict
  ELSE LET kept == SelectSeq(dict.allProperties, LAMBDA t : Matches(filter, t))
       IN [properties |-> Tree(kept), allProperties |-> kept]

\* file.format: not a function, or a function with its `nested` marker; what
\* the function does is fixed by `refs` (the messages it records in
\* FilteredOutputReferences) and `throws` (it raises instead of returning)
NotAFunction == [type |-> "undefined", nested |-> FALSE, refs |-> 0, throws |-> FALSE]
Formatters ==
  [type : {"function"}, nested : BOOLEAN, refs : 0..MaxRefs, throws : {FALSE}]
    \cup {[type |-> "function", nested |-> FALSE, refs |-> MaxRefs, throws |-> TRUE]}

\* createFormatArgs(args) (lib/utils/createFormatArgs.js)
createFormatArgs(args) ==
  [dictionary |-> args.dictionary, platform |-> args.platform, file |-> args.file]

\* the string a formatter returns for its arguments
FormatBody(format, args) ==
  [tokens |-> args.dictionary.allProperties]

RefMessage(i) == [reference |-> i]

----------------------------------------------------------------------------
(* Effects of a call, in program order *)

Effect(e, at, data) == [e |-> e, at |-> at, data |-> data]
Do(st, e, at, data) == [st EXCEPT !.effects = Append(@, Effect(e, at, data))]

\* console.log of one line: its kind, the path it names, the messages in it
Log(st, kind, path, messages) == Do(st, "log", Key(kind, path), messages)

Throw(st, error) == [st EXCEPT !.result = "threw", !.error = error]
Return(st, value) == [st EXCEPT !.result = value]

----------------------------------------------------------------------------
(* buildFile, step by step *)

\* lines 44-49: the build path, when there is one, is put before the
\* destination; the variant forgets the build path
FullDestination_bare(destination, platform) == destination.str
FullDestination(destination, platform) ==
  IF Truthy(platform.buildPath)
  THEN platform.buildPath.str \o destination.str
  ELSE destination.str

\* lines 51-53: the directory of the file is created when it does not exist;
\* the variant never creates it
EnsureDirectory_never(st, fullDestination) == st
EnsureDirectory(st, fullDestination) ==
  LET dir == dirname(fullDestination)
  IN IF ~existsSync(st, dir)
     THEN Do(mkdirsSync(st, dir), "mkdirs", Key("fs", dir), <<>>)
     ELSE st

\* lines 56-63: the dictionary a formatter sees
FilteredDictionary(dict, filteredProperties) ==
  [properties |-> filteredProperties.properties,
   allProperties |-> filteredProperties.allProperties,
   tokens |-> filteredProperties.properties,
   allTokens |-> filteredProperties.allProperties,
   _properties |-> dict.properties]

\* lines 66-70: the filtered properties object is an empty object; the
\* variant never finds it empty
NoProperties_never(filteredProperties) == FALSE
NoProperties(filteredProperties) == filteredProperties.properties = {}

\* property names every JavaScript object inherits from Object.prototype
ObjectPrototype == {"constructor", "toString", "valueOf", "hasOwnProperty", "__proto__"}

RECURSIVE Collect(_, _, _)
\* lines 77-84: nameCollisionObj, as its own keys in insertion order and the
\* array under each; an inherited property is truthy and has no push
Collect(tokens, i, obj) ==
  IF i > Len(tokens) \/ obj.error THEN obj
  ELSE LET propertyName == tokens[i].name
       IN IF propertyName \in DOMAIN obj.at
          THEN Collect(tokens, i + 1,
                       [obj EXCEPT !.at[propertyName] = Append(@, tokens[i])])
          ELSE IF propertyName \in ObjectPrototype
          THEN [obj EXCEPT !.error = TRUE]
          ELSE Collect(tokens, i + 1,
                       [keys |-> Append(obj.keys, propertyName),
                        at |-> [k \in DOMAIN obj.at \cup {propertyName} |->
                                  IF k = propertyName THEN <<tokens[i]>> ELSE obj.at[k]],
                        error |-> FALSE])

NameCollisionObj(tokens) ==
  Collect(tokens, 1, [keys |-> <<>>, at |-> [k \in {} |-> <<>>], error |-> FALSE])

\* the value of a property key that is a canonical array index, else -1
ArrayIndex(name) ==
  CASE name = "0" -> 0 [] name = "1" -> 1 [] name = "2" -> 2 [] OTHER -> -1

RECURSIVE Ascending(_)
\* a set of array-index keys in ascending numeric order
Ascending(S) ==
  IF S = {} THEN <<>>
  ELSE LET least == CHOOSE k \in S : \A o \in S : ArrayIndex(k) <= ArrayIndex(o)
       IN <<least>> \o Ascending(S \ {least})

\* Object.keys(obj): integer-like keys ascending, then the others as inserted
ObjectKeys(obj) ==
  Ascending({obj.keys[i] : i \in {j \in DOMAIN obj.keys : ArrayIndex(obj.keys[j]) >= 0}})
    \o SelectSeq(obj.keys, LAMBDA k : ArrayIndex(k) < 0)

\* properties.path.join('.')
RECURSIVE Join(_)
Join(path) ==
  IF Len(path) <= 1 THEN path ELSE <<Head(path), ".">> \o Join(Tail(path))

\* lines 90-98: the message of one colliding name
CollisionMessage(propertyName, properties) ==
  [name |-> propertyName,
   collisions |-> [i \in DOMAIN properties |->
                     [path |-> Join(properties[i].path), value |-> properties[i].value]]]

\* line 87: the group of this destination is cleared before detection; the
\* variant leaves the messages of earlier emissions in it
ClearCollisions_never(st, key) == st
ClearCollisions(st, key) ==
  Do([st EXCEPT !.groups = GroupMessages_clear(@, key)], "clear", key, <<>>)

RECURSIVE AddCollisions(_, _, _, _, _)
\* lines 88-100: one message for each key with more than one token
AddCollisions(st, key, obj, keys, i) ==
  IF i > Len(keys) THEN st
  ELSE LET propertyName == keys[i]
           message == CollisionMessage(propertyName, obj.at[propertyName])
       IN IF Len(obj.at[propertyName]) > 1
          THEN AddCollisions(
                 Do([st EXCEPT !.groups = GroupMessages_add(@, key, message)],
                    "add", key, <<message>>),
                 key, obj, keys, i + 1)
          ELSE AddCollisions(st, key, obj, keys, i + 1)

\* lines 76-100
CheckCollisions(st, destination, allProperties) ==
  LET nameCollisionObj == NameCollisionObj(allProperties)
      key == Key(GROUP_PropertyNameCollisionWarnings, destination.str)
  IN IF nameCollisionObj.error
     THEN Throw(st, "TypeError")
     ELSE AddCollisions(ClearCollisions(st, key), key, nameCollisionObj,
                        ObjectKeys(nameCollisionObj), 1)

RECURSIVE AddReferences(_, _)
\* the formatter records its reference messages in FilteredOutputReferences
AddReferences(g, n) ==
  IF n = 0 THEN g
  ELSE GroupMessages_add(AddReferences(g, n - 1), FilteredOutputReferences, RefMessage(n))

\* lines 103-107, the call of the formatter: the messages it records, and
\* the body it returns unless it throws
CallFormat(st, format, args) ==
  LET after == Do([st EXCEPT !.groups = AddReferences(@, format.refs)],
                  "format", Key("format", <<>>), <<FormatBody(format, args)>>)
  IN IF format.throws THEN Throw(after, "FormatterError") ELSE after

\* lines 103-107, fs.writeFileSync(fullDestination, body)
WriteFile(st, fullDestination, destination, body) ==
  IF WriteError(st, fullDestination) # ""
  THEN Throw(st, WriteError(st, fullDestination))
  ELSE Do(writeFileSync(st, fullDestination, body), "write", Key("fs", fullDestination), <<body>>)

\* line 113: the emission is reported as a success
IsSuccess(nested, propertyNamesCollisionCount, filteredReferencesCount) ==
  (nested \/ propertyNamesCollisionCount = 0) /\ filteredReferencesCount = 0

\* lines 117-128: the block of the name collisions
CollisionBlock(st, nested, destination, propertyNamesCollisionCount) ==
  LET key == Key(GROUP_PropertyNameCollisionWarnings, destination.str)
      warnings == GroupMessages_fetchMessages(st.groups, key)
  IN IF propertyNamesCollisionCount > 0
     THEN Log(Do(st, "fetchMessages", key, warnings), "collisions", destination.str, warnings)
     ELSE st

\* lines 130-138: the block of the filtered-out references, which flushes
\* them; the variant reads them and leaves them in the group
ReferenceBlock_fetch(st, destination, filteredReferencesCount) ==
  LET warnings == GroupMessages_fetchMessages(st.groups, FilteredOutputReferences)
  IN IF filteredReferencesCount > 0
     THEN Log(Do(st, "flush", FilteredOutputReferences, warnings),
              "references", destination.str, warnings)
     ELSE st
ReferenceBlock(st, destination, filteredReferencesCount) ==
  LET warnings == GroupMessages_fetchMessages(st.groups, FilteredOutputReferences)
  IN IF filteredReferencesCount > 0
     THEN Log(Do([st EXCEPT !.groups = GroupMessages_flush(@, FilteredOutputReferences)],
                 "flush", FilteredOutputReferences, warnings),
              "references", destination.str, warnings)
     ELSE st

\* lines 109-139
Report(st, nested, destination, fullDestination, propertyNamesCollisionCount) ==
  LET filteredReferencesCount == GroupMessages_count(st.groups, FilteredOutputReferences)
  IN IF IsSuccess(nested, propertyNamesCollisionCount, filteredReferencesCount)
     THEN Log(st, "success", fullDestination, <<>>)
     ELSE ReferenceBlock(
            CollisionBlock(Log(st, "warning", fullDestination, <<>>),
                           nested, destination, propertyNamesCollisionCount),
            destination, filteredReferencesCount)

\* lines 76-139, once the filtered set is known not to be empty
Emit(st, file, platform, dict, fullDestination, filteredDictionary) ==
  LET destination == file.destination
      format == file.format
      checked == CheckCollisions(st, destination, filteredDictionary.allProperties)
      propertyNamesCollisionCount ==
        GroupMessages_count(checked.groups,
                            Key(GROUP_PropertyNameCollisionWarnings, destination.str))
      args == createFormatArgs([dictionary |-> filteredDictionary,
                                platform |-> platform, file |-> file])
      formatted == CallFormat(checked, format, args)
      written == WriteFile(formatted, fullDestination, destination, FormatBody(format, args))
  IN IF checked.result = "threw" THEN checked
     ELSE IF formatted.result = "threw" THEN formatted
     ELSE IF written.result = "threw" THEN written
     ELSE Return(Report(written, format.nested, destination, fullDestination,
                        propertyNamesCollisionCount),
                 "undefined")

\* buildFile(file, platform, dictionary), lines 31-140; after the two checks,
\* line 41 reads format.nested, which raises a TypeError when format is
\* undefined
buildFile(st, file, platform, dict) ==
  LET destination == file.destination
      format == file.format
  IN IF ~IsFunction(format) THEN Throw(st, "Please enter a valid file format")
     ELSE IF ~IsString(destination) THEN Throw(st, "Please enter a valid destination")
     ELSE IF format.type # "function" THEN Throw(st, "TypeError")
     ELSE LET fullDestination == FullDestination(destination, platform)
              made == EnsureDirectory(st, fullDestination)
              filteredProperties == filterProperties(dict, file.filter)
              filteredDictionary == FilteredDictionary(dict, filteredProperties)
          IN IF NoProperties(filteredProperties)
             THEN Return(Log(made, "noFile", destination.str, <<>>), "null")
             ELSE Emit(made, file, platform, dict, fullDestination, filteredDictionary)

----------------------------------------------------------------------------
(* The state machine *)

Destinations == {Undefined, Str(<<>>), Str(<<"f">>)}
BuildPaths == {Undefined, Str(<<"o", "/">>)}

Files == [destination : Destinations, filter : Filters,
          format : Formatters \cup {NotAFunction}]
Platforms == [buildPath : BuildPaths]

NoCall == [file |-> [destination |-> Undefined, filter |-> "undefined", format |-> NotAFunction],
           result |-> "none", error |-> "", effects |-> <<>>,
           pending |-> 0, again |-> FALSE]

Start == [dirs |-> dirs, files |-> files, groups |-> groups,
          effects |-> <<>>, result |-> "none", error |-> ""]

\* one call of buildFile with the platform and the dictionary of the run;
\* `last` keeps the arguments, the effects in program order and the outcome,
\* and two facts about the state the call started in: `pending`, the number
\* of messages FilteredOutputReferences held, and `again`, that the call
\* before had the same arguments, started with no message pending and
\* returned. A call that would leave more than MaxPending messages in
\* FilteredOutputReferences (its formatter or its write fails after the
\* formatter recorded them) is not taken
BuildFile(file) ==
  \E done \in {buildFile(Start, file, platformConfig, dictionary)} :
     /\ GroupMessages_count(done.groups, FilteredOutputReferences) <= MaxPending
     /\ dirs' = done.dirs
     /\ files' = done.files
     /\ groups' = done.groups
     /\ last' = [file |-> file, result |-> done.result,
                 error |-> done.error, effects |-> done.effects,
                 pending |-> GroupMessages_count(groups, FilteredOutputReferences),
                 again |-> /\ last.file = file
                           /\ last.result \in {"undefined", "null"}
                           /\ last.pending = 0]
     /\ UNCHANGED <<dictionary, platformConfig>>

Empty ==
  /\ dirs = {<<".">>}
  /\ files = [p \in {} |-> <<>>]
  /\ groups = [k \in {} |-> <<>>]
  /\ last = NoCall

\* emission runs: every file description, ordinary token names
Init ==
  /\ dictionary \in Dictionaries(Names, MaxTokens)
  /\ platformConfig \in Platforms
  /\ Empty

Next == \E file \in Files : BuildFile(file)

Spec == Init /\ [][Next]_vars

\* collision runs: valid file descriptions whose formatter records no
\* reference, longer dictionaries, token names that are special property keys
CollisionFiles ==
  [destination : {Str(<<"f">>)}, filter : {"undefined", "named a"},
   format : {f \in Formatters : f.refs = 0 /\ ~f.throws}]

InitCollisions ==
  /\ dictionary \in Dictionaries(CollisionNames, MaxCollisionTokens)
  /\ platformConfig = [buildPath |-> Undefined]
  /\ Empty

NextCollisions == \E file \in CollisionFiles : BuildFile(file)

SpecCollisions == InitCollisions /\ [][NextCollisions]_vars

----------------------------------------------------------------------------
(* Reading a call *)

Returned(call) == call.result \in {"undefined", "null"}

\* the effects of a call that have the tag e
Effects(call, e) == SelectSeq(call.effects, LAMBDA x : x.e = e)

\* the lines a call printed, in order
Lines(call) == Effects(call, "log")

\* the lines of one kind
LinesOf(call, kind) == SelectSeq(Lines(call), LAMBDA x : x.at.group = kind)

\* the file a call is to write: the build path, if any, then the destination
PathOf(call) ==
  (IF platformConfig.buildPath.type = "string" THEN platformConfig.buildPath.str ELSE <<>>)
    \o call.file.destination.str

\* the tokens the filter of a call keeps
Kept(call) == filterProperties(dictionary, call.file.filter).allProperties

\* the call has a formatter and a destination that is a string
Valid(call) ==
  /\ call.result # "none"
  /\ call.file.format.type = "function"
  /\ call.file.destination.type = "string"

\* a valid call whose filter yields an empty properties mapping
Skipping(call) ==
  Valid(call) /\ filterProperties(dictionary, call.file.filter).properties = {}

\* the group of the name collisions of the destination of a call
CollisionKey(call) ==
  Key(GROUP_PropertyNameCollisionWarnings, call.file.destination.str)

\* the names that two or more of the tokens carry
Colliding(tokens) ==
  {n \in {tokens[i].name : i \in DOMAIN tokens} :
     Cardinality({i \in DOMAIN tokens : tokens[i].name = n}) >= 2}

\* the positions in the effects of a call of the effects with the tag e
At(call, e) == {i \in DOMAIN call.effects : call.effects[i].e = e}

----------------------------------------------------------------------------
(* C1 *)

\* C1: when a call with a non-empty filtered set and a formatter that returns
\* a body returns, the file at (buildPath or "") + destination exists, the
\* directory above it exists, the content of the file is exactly the body
\* the formatter returned in this call, and the one write of the call comes
\* before every line it prints; this for every count of collisions and of
\* filtered-out references.
C1_FileWritten ==
  (Valid(last) /\ Kept(last) # <<>> /\ last.result = "undefined") =>
     /\ PathOf(last) \in DOMAIN files
     /\ dirname(PathOf(last)) \in dirs
     /\ Len(Effects(last, "format")) = 1
     /\ files[PathOf(last)] = Effects(last, "format")[1].data[1]
     /\ Effects(last, "write") =
          <<Effect("write", Key("fs", PathOf(last)), Effects(last, "format")[1].data)>>
     /\ \A w \in At(last, "write"), l \in At(last, "log") : w < l

\* a written emission under a build path whose directory it had to create,
\* which printed both the collision block and the reference block
C1_Witness ==
  /\ last.result = "undefined"
  /\ Truthy(platformConfig.buildPath)
  /\ At(last, "mkdirs") # {}
  /\ LinesOf(last, "collisions") # <<>>
  /\ LinesOf(last, "references") # <<>>

----------------------------------------------------------------------------
(* C2 *)

\* C2: a call whose filter yields an empty properties mapping does not call
\* the formatter, leaves every file as it was (the file at its destination
\* included, if there is one), prints the one line "No properties for
\* <destination>. File not created.", and returns null.
C2_SkipWritesNoFile ==
  [][Skipping(last') =>
       /\ last'.result = "null"
       /\ At(last', "format") = {}
       /\ At(last', "write") = {}
       /\ Lines(last') = <<Effect("log", Key("noFile", last'.file.destination.str), <<>>)>>
       /\ files' = files]_vars

\* a skipped emission whose destination already holds a file
C2_Witness ==
  /\ Skipping(last)
  /\ last.result = "null"
  /\ PathOf(last) \in DOMAIN files

----------------------------------------------------------------------------
(* C3 *)

\* C3: a call whose format is not a function raises 'Please enter a valid
\* file format' and leaves the directories, the files and the message groups
\* as they were, with no effect at all: no directory made, no file written,
\* no line printed, no group cleared, added to or flushed.
C3_InvalidFormatTouchesNothing ==
  [][(last'.result # "none" /\ last'.file.format.type # "function") =>
       /\ last'.result = "threw"
       /\ last'.error = "Please enter a valid file format"
       /\ last'.effects = <<>>
       /\ dirs' = dirs
       /\ files' = files
       /\ groups' = groups]_vars

\* the error was raised where a valid format would have made the directory
C3_Witness ==
  /\ last.error = "Please enter a valid file format"
  /\ last.file.destination = Str(<<"f">>)
  /\ Truthy(platformConfig.buildPath)
  /\ dirname(PathOf(last)) \notin dirs

----------------------------------------------------------------------------
(* C4 *)

\* C4, as claimed: with a valid formatter, a destination that is not a
\* string or is the empty string raises 'Please enter a valid destination',
\* and no directory is made and no file written.
C4_EmptyDestinationRejected ==
  [][(/\ last'.result # "none"
      /\ last'.file.format.type = "function"
      /\ (last'.file.destination.type # "string" \/ last'.file.destination.str = <<>>)) =>
       /\ last'.result = "threw"
       /\ last'.error = "Please enter a valid destination"
       /\ dirs' = dirs
       /\ files' = files]_vars

\* C4, amended: with a valid formatter, a destination that is not a string
\* raises 'Please enter a valid destination' and no directory is made, no
\* file written; every string, the empty one included, passes this check.
C4_NonStringDestinationRejected ==
  [][(last'.result # "none" /\ last'.file.format.type = "function") =>
       /\ last'.file.destination.type # "string" =>
            /\ last'.result = "threw"
            /\ last'.error = "Please enter a valid destination"
            /\ last'.effects = <<>>
            /\ dirs' = dirs
            /\ files' = files
       /\ last'.file.destination.type = "string" =>
            last'.error # "Please enter a valid destination"]_vars

\* the destination was rejected where a string would have made the directory
C4_Witness ==
  /\ last.error = "Please enter a valid destination"
  /\ last.file.format.type = "function"
  /\ Truthy(platformConfig.buildPath)
  /\ <<"o">> \notin dirs

----------------------------------------------------------------------------
(* C5 *)

\* C5: a written emission with a nested format and duplicate names among the
\* kept tokens prints no collision block, whatever the number of filtered-out
\* references; with one or more of those it prints the reference block.
C5_NestedPrintsNoCollisions ==
  (/\ last.result = "undefined"
   /\ last.file.format.nested
   /\ Colliding(Kept(last)) # {}) =>
     /\ LinesOf(last, "collisions") = <<>>
     /\ (last.pending + last.file.format.refs > 0) => LinesOf(last, "references") # <<>>

----------------------------------------------------------------------------
(* C6 *)

RECURSIVE FirstSeen(_)
\* the names of a token sequence in the order of their first occurrence
FirstSeen(tokens) ==
  IF tokens = <<>> THEN <<>>
  ELSE LET front == SubSeq(tokens, 1, Len(tokens) - 1)
           n == tokens[Len(tokens)].name
       IN IF \E i \in DOMAIN front : front[i].name = n
          THEN FirstSeen(front)
          ELSE Append(FirstSeen(front), n)

\* one message for each colliding name, in the order of first occurrence,
\* each with the path and value of its tokens in the order of the sequence
ExpectedMessages(tokens) ==
  LET names == SelectSeq(FirstSeen(tokens), LAMBDA n : n \in Colliding(tokens))
  IN [k \in DOMAIN names |->
        LET mine == SelectSeq(tokens, LAMBDA t : t.name = names[k])
        IN [name |-> names[k],
            collisions |-> [i \in DOMAIN mine |->
                              [path |-> Join(mine[i].path), value |-> mine[i].value]]]]

\* C6: for every non-empty kept token sequence T of a call that returns, buildFile
\* records in the group of the destination one message for each name that two
\* or more tokens of T carry, in the order in which those names first occur
\* in T, each message listing its tokens in their order in T; the collision
\* count is the number of those names.
C6_CollisionMessages ==
  (Valid(last) /\ Kept(last) # <<>> /\ last.result = "undefined") =>
     /\ GroupMessages_fetchMessages(groups, CollisionKey(last)) = ExpectedMessages(Kept(last))
     /\ GroupMessages_count(groups, CollisionKey(last)) = Cardinality(Colliding(Kept(last)))

----------------------------------------------------------------------------
(* C7 *)

\* two calls in a row with the same arguments that both return write the
\* same content and print the same lines
SameOutcome ==
  /\ last'.result = last.result
  /\ Lines(last') = Lines(last)
  /\ Effects(last', "write") = Effects(last, "write")
  /\ last.result = "undefined" => files'[PathOf(last)] = files[PathOf(last)]
  /\ GroupMessages_fetchMessages(groups', CollisionKey(last))
       = GroupMessages_fetchMessages(groups, CollisionKey(last))

\* C7, as claimed: from every state of the message groups, two calls in a
\* row with the same arguments that both return write the same content and
\* print the same collision and reference diagnostics.
C7_IdempotentFromAnyState ==
  [][(last'.file = last.file /\ Returned(last) /\ Returned(last')) => SameOutcome]_vars

\* C7, amended: from every state in which FilteredOutputReferences holds no
\* message, two calls in a row with the same arguments that both return
\* write the same content and print the same collision and reference
\* diagnostics; the collision messages of the first are not accumulated
\* into the second.
C7_IdempotentFromNoPending ==
  [][(/\ last'.file = last.file
      /\ Returned(last) /\ Returned(last')
      /\ last.pending = 0) => SameOutcome]_vars

\* the second of two such calls, which wrote the file and printed both blocks
C7_Witness ==
  /\ last.again
  /\ last.result = "undefined"
  /\ LinesOf(last, "collisions") # <<>>
  /\ LinesOf(last, "references") # <<>>

----------------------------------------------------------------------------
(* C8 *)

\* C8, as claimed: after every call that returns, whether it wrote the file
\* or skipped it, FilteredOutputReferences holds no message.
C8_FlushedByEveryCall ==
  Returned(last) => GroupMessages_count(groups, FilteredOutputReferences) = 0

\* C8, amended: after every call that writes its file and returns,
\* FilteredOutputReferences holds no message, and the call flushed it at most
\* once; a call that skips the file leaves the group as it was.
C8_FlushedByEveryWrite ==
  [][/\ last'.result = "undefined" =>
          /\ GroupMessages_count(groups', FilteredOutputReferences) = 0
          /\ Len(Effects(last', "flush")) <= 1
          /\ Len(LinesOf(last', "references")) = Len(Effects(last', "flush"))
     /\ last'.result = "null" =>
          /\ GroupMessages_fetchMessages(groups', FilteredOutputReferences)
               = GroupMessages_fetchMessages(groups, FilteredOutputReferences)
          /\ Effects(last', "flush") = <<>>]_vars

\* a written emission that started with a message pending and flushed the group
C8_Witness ==
  /\ last.result = "undefined"
  /\ last.pending > 0
  /\ Len(Effects(last, "flush")) = 1
  /\ GroupMessages_count(groups, FilteredOutputReferences) = 0

----------------------------------------------------------------------------
(* C9 *)

\* C9, as claimed: a call whose filter yields an empty properties mapping
\* leaves the whole file system, files and directories, as it was.
C9_SkipTouchesNothing ==
  [][Skipping(last') => (files' = files /\ dirs' = dirs)]_vars

\* C9, amended: a call whose filter yields an empty properties mapping
\* leaves every file as it was; the directories after it are those before it
\* and the directory of the full destination with the directories above it.
C9_SkipMakesOnlyTheDirectory ==
  [][Skipping(last') =>
       /\ files' = files
       /\ dirs' = dirs \cup Chain(dirname(PathOf(last')))
       /\ dirname(PathOf(last')) \notin dirs =>
            Effects(last', "mkdirs") =
              <<Effect("mkdirs", Key("fs", dirname(PathOf(last'))), <<>>)>>]_vars

\* a skipped emission that made the directory of its destination
C9_Witness ==
  /\ Skipping(last)
  /\ last.result = "null"
  /\ At(last, "mkdirs") # {}
  /\ PathOf(last) \notin DOMAIN files

----------------------------------------------------------------------------
(* C10 *)

\* C10, as claimed: after every call that returns, the collision group of
\* its destination holds no message, for nested and flat formats and every
\* number of filtered-out references.
C10_CollisionGroupEmptied ==
  Returned(last) => GroupMessages_count(groups, CollisionKey(last)) = 0

\* the effects of a call on the collision group of its destination
OnCollisionGroup(call) ==
  SelectSeq(call.effects,
            LAMBDA x : x.at = CollisionKey(call)
                         /\ x.e \in {"clear", "add", "fetchMessages", "flush"})

\* C10, amended: a call that writes its file and returns clears the
\* collision group of its destination first, then adds one message for each
\* colliding name; reporting never flushes the group, and reads it, once,
\* only when it prints the collision block: after a call that printed no
\* collision block the group holds the messages of this emission.
C10_CollisionGroupRebuilt ==
  last.result = "undefined" =>
    LET on == OnCollisionGroup(last)
        n == Cardinality(Colliding(Kept(last)))
    IN /\ Len(on) \in {n + 1, n + 2}
       /\ on[1].e = "clear"
       /\ \A i \in 2..(n + 1) : on[i].e = "add"
       /\ Len(on) = n + 2 <=> LinesOf(last, "collisions") # <<>>
       /\ Len(on) = n + 2 => on[n + 2].e = "fetchMessages"
       /\ LinesOf(last, "collisions") = <<>> =>
            GroupMessages_fetchMessages(groups, CollisionKey(last))
              = [i \in 1..n |-> on[i + 1].data[1]]

\* the second of two emissions of a nested format with a colliding name,
\* reported as a success: the group holds one message, not none and not two
C10_Witness ==
  /\ last.result = "undefined"
  /\ last.again
  /\ last.file.format.nested
  /\ LinesOf(last, "success") # <<>>
  /\ GroupMessages_count(groups, CollisionKey(last)) = 1

====
